---- MODULE Spec2Model ----
(***************************************************************************)
(* Model of the Makedown static-site build script (src/build.cjs): the     *)
(* templating engine (resolvePath, replacePlaceholders, processLoops,      *)
(* fillTemplate) as operators over character sequences and tagged values,  *)
(* and the build pipeline (main, getBlogPosts, buildBlogPage) as a state   *)
(* machine.                                                                *)
(*                                                                         *)
(* A JavaScript string is a sequence of one-character strings.  A          *)
(* JavaScript value is a record [t |-> tag, v |-> payload].  A call that   *)
(* can throw returns [ok |-> TRUE, v |-> result] or [ok |-> FALSE, ...].   *)
(***************************************************************************)
EXTENDS Integers, Sequences, FiniteSets, TLC

(***************************************************************************)
(* Characters and strings                                                  *)
(***************************************************************************)
DigitChars == <<"0", "1", "2", "3", "4", "5", "6", "7", "8", "9">>

Digits == {DigitChars[i] : i \in 1..10}

Letters ==
  {"a","b","c","d","e","f","g","h","i","j","k","l","m","n","o","p","q","r",
   "s","t","u","v","w","x","y","z","A","B","C","D","E","F","G","H","I","J",
   "K","L","M","N","O","P","Q","R","S","T","U","V","W","X","Y","Z"}

\* the regular-expression class \w
WordChars == Letters \cup Digits \cup {"_"}

\* the regular-expression class \s (the members the model's alphabet has)
SpaceChars == {" ", "\n", "\t"}

\* the characters the regular-expression dot does not match
LineBreaks == {"\n"}

IsAt(s, i, pat) ==
  /\ i >= 1
  /\ i + Len(pat) - 1 <= Len(s)
  /\ SubSeq(s, i, i + Len(pat) - 1) = pat

Min(S) == CHOOSE x \in S : \A y \in S : x <= y

RECURSIVE Concat(_)
Concat(ss) == IF ss = <<>> THEN <<>> ELSE Head(ss) \o Concat(Tail(ss))

\* String.prototype.trim
RECURSIVE TrimLeft(_)
TrimLeft(s) ==
  IF s # <<>> /\ Head(s) \in SpaceChars THEN TrimLeft(Tail(s)) ELSE s

RECURSIVE TrimRight(_)
TrimRight(s) ==
  IF s # <<>> /\ s[Len(s)] \in SpaceChars
  THEN TrimRight(SubSeq(s, 1, Len(s) - 1))
  ELSE s

Trim(s) == TrimRight(TrimLeft(s))

\* String.prototype.split('.'): "" splits to [""], "a..b" to ["a","","b"]
RECURSIVE SplitDots(_)
SplitDots(s) ==
  LET dots == {i \in 1..Len(s) : s[i] = "."} IN
  IF dots = {} THEN <<s>>
  ELSE LET d == Min(dots) IN
       <<SubSeq(s, 1, d - 1)>> \o SplitDots(SubSeq(s, d + 1, Len(s)))

\* Number to decimal text, and parseInt(digits, 10)
RECURSIVE NumText(_)
NumText(n) ==
  IF n < 10 THEN <<DigitChars[n + 1]>>
  ELSE NumText(n \div 10) \o <<DigitChars[(n % 10) + 1]>>

DigitValue(c) == CHOOSE d \in 0..9 : DigitChars[d + 1] = c

RECURSIVE ParseInt(_)
ParseInt(ds) ==
  IF Len(ds) = 1 THEN DigitValue(ds[1])
  ELSE 10 * ParseInt(SubSeq(ds, 1, Len(ds) - 1)) + DigitValue(ds[Len(ds)])

(***************************************************************************)
(* JavaScript values                                                       *)
(***************************************************************************)
Str(s) == [t |-> "string", v |-> s]
Num(n) == [t |-> "number", v |-> n]
Obj(f) == [t |-> "object", v |-> f]
Arr(a) == [t |-> "array", v |-> a]
Fn(name) == [t |-> "function", v |-> name]
Null == [t |-> "null", v |-> 0]
Undefined == [t |-> "undefined", v |-> 0]

IsArray(x) == x.t = "array"

S_item == <<"i","t","e","m">>
S_length == <<"l","e","n","g","t","h">>
S_toString == <<"t","o","S","t","r","i","n","g">>
S_null == <<"n","u","l","l">>
S_undefined == <<"u","n","d","e","f","i","n","e","d">>
S_objectObject == <<"[","o","b","j","e","c","t"," ","O","b","j","e","c","t","]">>
S_nativeFunction ==
  <<"f","u","n","c","t","i","o","n"," ","t","o","S","t","r","i","n","g","(",")",
    " ","{"," ","[","n","a","t","i","v","e"," ","c","o","d","e","]"," ","}">>

\* Property names every object and array inherits (Object.prototype); the
\* model keeps one of them, the others behave the same way.
PrototypeKeys == {S_toString}

\* "0", "1", ... below len: the index properties of an array or string
IsIndexKey(k, len) == \E n \in 0..(len - 1) : k = NumText(n)

\* the JavaScript `key in value` test, for an object or an array
HasProperty(x, k) ==
  CASE x.t = "object" -> k \in DOMAIN x.v \/ k \in PrototypeKeys
    [] x.t = "array" ->
         IsIndexKey(k, Len(x.v)) \/ k = S_length \/ k \in PrototypeKeys
    [] OTHER -> FALSE

\* the JavaScript `value[key]` read, for a value that is not null/undefined
GetProperty(x, k) ==
  CASE x.t = "object" ->
         IF k \in DOMAIN x.v THEN x.v[k]
         ELSE IF k \in PrototypeKeys THEN Fn(k) ELSE Undefined
    [] x.t = "array" ->
         IF IsIndexKey(k, Len(x.v)) THEN x.v[ParseInt(k) + 1]
         ELSE IF k = S_length THEN Num(Len(x.v))
         ELSE IF k \in PrototypeKeys THEN Fn(k) ELSE Undefined
    [] x.t = "string" ->
         IF IsIndexKey(k, Len(x.v)) THEN Str(<<x.v[ParseInt(k) + 1]>>)
         ELSE IF k = S_length THEN Num(Len(x.v))
         ELSE IF k \in PrototypeKeys THEN Fn(k) ELSE Undefined
    [] OTHER -> IF k \in PrototypeKeys THEN Fn(k) ELSE Undefined

\* array[index] with a numeric index: undefined outside the array
ElementAt(a, index) ==
  IF index + 1 <= Len(a.v) THEN a.v[index + 1] ELSE Undefined

\* The string String.prototype.replace makes of a callback's return value
RECURSIVE Text(_)
RECURSIVE JoinText(_)
Text(x) ==
  CASE x.t = "string" -> x.v
    [] x.t = "number" -> NumText(x.v)
    [] x.t = "null" -> S_null
    [] x.t = "undefined" -> S_undefined
    [] x.t = "object" -> S_objectObject
    [] x.t = "function" -> S_nativeFunction
    [] x.t = "array" -> JoinText(x.v)

\* Array.prototype.join(','): null and undefined elements give ""
JoinText(a) ==
  IF a = <<>> THEN <<>>
  ELSE LET h == IF Head(a).t \in {"null", "undefined"} THEN <<>> ELSE Text(Head(a))
       IN IF Len(a) = 1 THEN h ELSE h \o <<",">> \o JoinText(Tail(a))

(***************************************************************************)
(* resolvePath (build.cjs 64-89)                                           *)
(***************************************************************************)
Returned(x) == [ok |-> TRUE, v |-> x]
Thrown == [ok |-> FALSE, v |-> Undefined]

\* key.match(/(\w+)\[(\d+)\]/), unanchored: the "[" positions that have a
\* word character before them and digits and "]" after them
IndexClose(key, p) ==
  {q \in (p + 2)..Len(key) :
     /\ key[q] = "]"
     /\ \A r \in (p + 1)..(q - 1) : key[r] \in Digits}

IndexOpens(key) ==
  {p \in 2..Len(key) :
     /\ key[p] = "["
     /\ key[p - 1] \in WordChars
     /\ IndexClose(key, p) # {}}

\* the match whose "[" is at p: (\w+) is the longest word run before it
ArrayMatchAt(key, p) ==
  [found |-> TRUE,
   name |-> SubSeq(key,
                   Min({i \in 1..(p - 1) :
                          \A r \in i..(p - 1) : key[r] \in WordChars}),
                   p - 1),
   index |-> ParseInt(SubSeq(key, p + 1, Min(IndexClose(key, p)) - 1))]

\* the leftmost match
ArrayMatch(key) ==
  IF IndexOpens(key) = {}
  THEN [found |-> FALSE, name |-> <<>>, index |-> 0]
  ELSE ArrayMatchAt(key, Min(IndexOpens(key)))

\* currentValue[arrayName] && Array.isArray(...) ? ...[index] : throw
IndexInto(named, index) ==
  IF IsArray(named) THEN Returned(ElementAt(named, index)) ELSE Thrown

\* the body of the for loop of resolvePath after the null check
ResolveMatched(key, currentValue, arrayMatch) ==
  IF arrayMatch.found
  THEN IndexInto(GetProperty(currentValue, arrayMatch.name), arrayMatch.index)
  ELSE IF currentValue.t \in {"object", "array"} /\ HasProperty(currentValue, key)
       THEN Returned(GetProperty(currentValue, key))
       ELSE Thrown

\* one iteration of the for loop of resolvePath, on the current value
ResolveKey(key, currentValue) ==
  IF currentValue.t \in {"undefined", "null"} THEN Thrown
  ELSE ResolveMatched(key, currentValue, ArrayMatch(key))

RECURSIVE ResolveKeys(_, _)

\* the next iteration, unless this one threw
ResolveNext(keys, step) ==
  IF step.ok THEN ResolveKeys(keys, step.v) ELSE Thrown

ResolveKeys(keys, currentValue) ==
  IF keys = <<>> THEN Returned(currentValue)
  ELSE ResolveNext(Tail(keys), ResolveKey(Head(keys), currentValue))

resolvePath(pathString, d) == ResolveKeys(SplitDots(Trim(pathString)), d)

(***************************************************************************)
(* replacePlaceholders (build.cjs 100-111)                                 *)
(***************************************************************************)
S_openBraces == <<"{", "{">>
S_closeBraces == <<"}", "}">>

ThrownText == [ok |-> FALSE, v |-> <<>>]

\* replace() concatenates what its callback returns for a match with the
\* rest of the scan; a throw of the callback ends the whole call
Then(first, rest) ==
  IF first.ok /\ rest.ok THEN Returned(first.v \o rest.v) ELSE ThrownText

\* the regular expression written /{{(.*?)}./: one closing brace and any
\* character after it close the placeholder
PlaceholderEndsOneBrace(s, i) ==
  {j \in (i + 2)..(Len(s) - 1) :
     /\ IsAt(s, j, <<"}">>)
     /\ \A r \in (i + 2)..(j - 1) : s[r] \notin LineBreaks}

\* /{{(.*?)}}/ tried at position i: the positions of a closing "}}" that
\* has no line break before it
PlaceholderEnds(s, i) ==
  {j \in (i + 2)..Len(s) :
     /\ IsAt(s, j, S_closeBraces)
     /\ \A r \in (i + 2)..(j - 1) : s[r] \notin LineBreaks}

\* the position of the closing braces of the match at i, the nearest; 0 if
\* there is no match at i
PlaceholderClose(s, i) ==
  IF ~IsAt(s, i, S_openBraces) \/ PlaceholderEnds(s, i) = {} THEN 0
  ELSE Min(PlaceholderEnds(s, i))

\* the callback without its try/catch: the throw of resolvePath leaves it
CatchResolveRethrows(match, resolved) ==
  IF resolved.ok THEN Returned(Text(resolved.v)) ELSE ThrownText

\* try { return resolvePath(key, data) } catch { warn; return match }
CatchResolve(match, resolved) ==
  IF resolved.ok THEN Returned(Text(resolved.v)) ELSE Returned(match)

\* the callback of replacePlaceholders
PlaceholderText(match, key, d) == CatchResolve(match, resolvePath(key, d))

RECURSIVE ReplaceFrom(_, _, _)

\* the match that starts at i and closes at j: the text before it is kept,
\* the match is replaced, the scan goes on after the closing braces
ReplaceMatch(s, from, d, i, j) ==
  Then(Returned(SubSeq(s, from, i - 1)),
       Then(PlaceholderText(SubSeq(s, i, j + 1), SubSeq(s, i + 2, j - 1), d),
            ReplaceFrom(s, j + 2, d)))

\* the positions from `from` on where the regular expression matches
PlaceholderStarts(s, from) == {i \in from..Len(s) : PlaceholderClose(s, i) # 0}

\* template.replace(/{{(.*?)}}/g, callback), scanning from position `from`:
\* the leftmost match is taken, text without a match is kept
ReplaceFrom(s, from, d) ==
  IF PlaceholderStarts(s, from) = {} THEN Returned(SubSeq(s, from, Len(s)))
  ELSE ReplaceMatch(s, from, d, Min(PlaceholderStarts(s, from)),
                    PlaceholderClose(s, Min(PlaceholderStarts(s, from))))

replacePlaceholders(tpl, d) == ReplaceFrom(tpl, 1, d)

(***************************************************************************)
(* processLoops and fillTemplate (build.cjs 121-152)                       *)
(***************************************************************************)
S_openLoop == <<"[", "[", "(">>
S_closeLoop == <<"]", "]">>

\* /\[\[\((.*?)\)\s*([\s\S]*?)\]\]/ tried at position i.  The lazy path
\* stops at the first ")" (no line break before it), \s* takes the white
\* space after it, the lazy body stops at the first "]]" from there on.
\* A later ")" or a shorter \s* finds no "]]" the first choice does not.
LoopParens(s, i) ==
  {k \in (i + 3)..Len(s) :
     /\ s[k] = ")"
     /\ \A r \in (i + 3)..(k - 1) : s[r] \notin LineBreaks}

\* where the body starts when ")" is at k: after the white space
LoopBodyStart(s, k) ==
  Min({x \in (k + 1)..(Len(s) + 1) : x > Len(s) \/ s[x] \notin SpaceChars})

LoopEnds(s, m) == {e \in m..Len(s) : IsAt(s, e, S_closeLoop)}

NoLoopMatch == [found |-> FALSE, path |-> <<>>, body |-> <<>>, next |-> 0]

\* the match at i with ")" at k and the body starting at m
LoopMatchBody(s, i, k, m) ==
  IF LoopEnds(s, m) = {} THEN NoLoopMatch
  ELSE [found |-> TRUE,
        path |-> SubSeq(s, i + 3, k - 1),
        body |-> SubSeq(s, m, Min(LoopEnds(s, m)) - 1),
        next |-> Min(LoopEnds(s, m)) + 2]

LoopMatchParen(s, i, k) == LoopMatchBody(s, i, k, LoopBodyStart(s, k))

LoopMatch(s, i) ==
  IF ~IsAt(s, i, S_openLoop) \/ LoopParens(s, i) = {} THEN NoLoopMatch
  ELSE LoopMatchParen(s, i, Min(LoopParens(s, i)))

\* { ...data, item: item }
LoopData(d, item) ==
  Obj([k \in DOMAIN d.v \cup {S_item} |-> IF k = S_item THEN item ELSE d.v[k]])

RECURSIVE fillTemplate(_, _)
RECURSIVE LoopsFrom(_, _, _)
RECURSIVE LoopBody(_, _, _)

\* the for loop of the callback: result += fillTemplate(loopTemplate, loopData)
LoopBody(loopTemplate, items, d) ==
  IF items = <<>> THEN Returned(<<>>)
  ELSE Then(fillTemplate(loopTemplate, LoopData(d, Head(items))),
            LoopBody(loopTemplate, Tail(items), d))

\* the callback treating a path that gives no array as an empty array
LoopOverOrNothing(array, loopTemplate, d) ==
  IF ~array.ok \/ ~IsArray(array.v) THEN Returned(<<>>)
  ELSE LoopBody(loopTemplate, array.v.v, d)

\* the callback after resolvePath: a throw of resolvePath is not caught,
\* a value that is no array throws
LoopOver(array, loopTemplate, d) ==
  IF ~array.ok \/ ~IsArray(array.v) THEN ThrownText
  ELSE LoopBody(loopTemplate, array.v.v, d)

\* the callback of processLoops
LoopText(arrayPath, loopTemplate, d) ==
  LoopOver(resolvePath(arrayPath, d), loopTemplate, d)

\* the match m that starts at i: the text before it is kept, the block is
\* replaced, the scan goes on after the closing brackets
LoopsMatch(s, from, d, i, m) ==
  Then(Returned(SubSeq(s, from, i - 1)),
       Then(LoopText(m.path, m.body, d), LoopsFrom(s, m.next, d)))

\* the positions from `from` on where the regular expression matches
LoopStarts(s, from) == {i \in from..Len(s) : LoopMatch(s, i).found}

\* template.replace(loopRegex, callback), scanning from position `from`
LoopsFrom(s, from, d) ==
  IF LoopStarts(s, from) = {} THEN Returned(SubSeq(s, from, Len(s)))
  ELSE LoopsMatch(s, from, d, Min(LoopStarts(s, from)),
                  LoopMatch(s, Min(LoopStarts(s, from))))

processLoops(tpl, d) == LoopsFrom(tpl, 1, d)

\* return replacePlaceholders(loopProcessedTemplate, data)
FillPlaceholders(loopProcessedTemplate, d) ==
  IF ~loopProcessedTemplate.ok THEN ThrownText
  ELSE replacePlaceholders(loopProcessedTemplate.v, d)

fillTemplate(tpl, d) == FillPlaceholders(processLoops(tpl, d), d)

(***************************************************************************)
(* fillTemplate of the older variant (build.js 14-38)                      *)
(***************************************************************************)
\* how the for loop of the callback goes on after a key: with a value, by
\* `return match`, or by a throw
KeyValue(x) == [st |-> "value", v |-> x]
KeyReturnsMatch == [st |-> "match", v |-> Undefined]
KeyThrows == [st |-> "throw", v |-> Undefined]

\* value[arrayName] && Array.isArray(value[arrayName]) ? ...[index] : return match
IndexInto_js(named, index) ==
  IF IsArray(named) THEN KeyValue(ElementAt(named, index)) ELSE KeyReturnsMatch

\* the body of the for loop after the undefined check.  A property read
\* of null and `k in null` are TypeErrors; typeof null is 'object'.
KeyMatched_js(k, value, arrayMatch) ==
  IF value.t = "null" THEN KeyThrows
  ELSE IF arrayMatch.found
  THEN IndexInto_js(GetProperty(value, arrayMatch.name), arrayMatch.index)
  ELSE IF value.t \in {"object", "array"} /\ HasProperty(value, k)
       THEN KeyValue(GetProperty(value, k))
       ELSE KeyThrows

\* one iteration of the for loop: if (value === undefined) return match
Key_js(k, value) ==
  IF value.t = "undefined" THEN KeyReturnsMatch
  ELSE KeyMatched_js(k, value, ArrayMatch(k))

RECURSIVE Keys_js(_, _)

\* the next iteration, unless this one left the callback
KeyNext_js(keys, step) ==
  IF step.st = "value" THEN Keys_js(keys, step.v) ELSE step

\* for (const k of keys) { ... } return value
Keys_js(keys, value) ==
  IF keys = <<>> THEN KeyValue(value)
  ELSE KeyNext_js(Tail(keys), Key_js(Head(keys), value))

\* what the callback gives replace(): the text of the value, the match, or
\* a throw that ends the call
CallbackText_js(match, outcome) ==
  CASE outcome.st = "value" -> Returned(Text(outcome.v))
    [] outcome.st = "match" -> Returned(match)
    [] OTHER -> ThrownText

\* the callback of fillTemplate: key.trim().split('.'), the loop, the return
Callback_js(match, key, d) ==
  CallbackText_js(match, Keys_js(SplitDots(Trim(key)), d))

RECURSIVE FillFrom_js(_, _, _)

\* the match that starts at i and closes at j
FillMatch_js(s, from, d, i, j) ==
  Then(Returned(SubSeq(s, from, i - 1)),
       Then(Callback_js(SubSeq(s, i, j + 1), SubSeq(s, i + 2, j - 1), d),
            FillFrom_js(s, j + 2, d)))

\* template.replace(/{{(.*?)}}/g, callback), scanning from position `from`
FillFrom_js(s, from, d) ==
  IF PlaceholderStarts(s, from) = {} THEN Returned(SubSeq(s, from, Len(s)))
  ELSE FillMatch_js(s, from, d, Min(PlaceholderStarts(s, from)),
                    PlaceholderClose(s, Min(PlaceholderStarts(s, from))))

\* fillTemplate of build.js
fillTemplate_js(tpl, d) == FillFrom_js(tpl, 1, d)

(***************************************************************************)
(* Writing templates and paths: the text of a placeholder, a loop block    *)
(* and a dotted path, used to write the inputs of the model.               *)
(***************************************************************************)
RECURSIVE Dotted(_)
Dotted(names) ==
  IF Len(names) = 1 THEN names[1]
  ELSE names[1] \o <<".">> \o Dotted(Tail(names))

Placeholder(path) == S_openBraces \o <<" ">> \o path \o <<" ">> \o S_closeBraces

LoopBlock(path, body) ==
  S_openLoop \o path \o <<")", " ">> \o body \o S_closeLoop

(***************************************************************************)
(* The files of a build (build.cjs 36-42 and the README's layout)          *)
(***************************************************************************)
S_title == <<"t","i","t","l","e">>
S_routes == <<"r","o","u","t","e","s">>
S_main == <<"m","a","i","n">>
S_pages == <<"p","a","g","e","s">>
S_page == <<"p","a","g","e">>
S_content == <<"c","o","n","t","e","n","t">>
S_meta == <<"m","e","t","a">>
S_url == <<"u","r","l">>
S_blogcontent == <<"b","l","o","g","c","o","n","t","e","n","t">>
S_posts == <<"p","o","s","t","s">>
S_tags == <<"t","a","g","s">>
S_index == <<"i","n","d","e","x">>
S_dotHtml == <<".","h","t","m","l">>
S_a == <<"a">>
S_b == <<"b">>

\* .blisss.config.json, parsed: a complete configuration, and one without routes
ConfigOk ==
  Obj((S_title :> Str(<<"T">>)) @@
      (S_routes :> Obj((S_main :> Str(S_main \o S_dotHtml)) @@
                       (S_pages :> Str(S_pages \o S_dotHtml)))))

ConfigNoRoutes == Obj((S_title :> Str(<<"T">>)))

Configs == {ConfigOk, ConfigNoRoutes}

\* src/templates: the main template of the README, and two page templates
MainTemplates ==
  {Placeholder(S_title) \o <<":">> \o
   LoopBlock(Dotted(<<S_blogcontent, S_posts>>),
             Placeholder(Dotted(<<S_item, S_url>>)) \o <<"=">> \o
             Placeholder(Dotted(<<S_item, S_title>>)) \o <<";">>)}

PageWithTags ==
  Placeholder(Dotted(<<S_page, S_meta, S_title>>)) \o
  LoopBlock(Dotted(<<S_page, S_meta, S_tags>>), <<"#">> \o Placeholder(S_item)) \o
  Placeholder(Dotted(<<S_page, S_content>>))

PagePlain ==
  Placeholder(Dotted(<<S_page, S_meta, S_title>>)) \o <<"|">> \o
  Placeholder(Dotted(<<S_page, S_content>>))

PageTemplates == {PageWithTags, PagePlain}

\* meta.json, parsed
MetaTagged == Obj((S_title :> Str(<<"A">>)) @@ (S_tags :> Arr(<<Str(<<"x">>), Str(<<"y">>)>>)))
MetaUntagged == Obj((S_title :> Str(<<"B">>)))
MetaTagString == Obj((S_title :> Str(<<"C">>)) @@ (S_tags :> Str(<<"x">>)))

Metas == <<MetaTagged, MetaUntagged, MetaTagString, Null>>

\* content.md
Contents == {<<"h", "i">>}

\* src/static: absent, or holding one file
StaticTrees == {<<>>, (S_a \o S_dotHtml) :> <<"S">>}

\* src/blogs as readdir lists it: entries in directory order
Entry(name, isDir) == [name |-> name, isDirectory |-> isDir]

Listings ==
  {<<>>,
   <<Entry(S_a, TRUE)>>,
   <<Entry(S_a, TRUE), Entry(S_b, TRUE)>>,
   <<Entry(S_b, TRUE), Entry(S_index, TRUE)>>,
   <<Entry(S_a, TRUE), Entry(S_tags, FALSE), Entry(S_index, TRUE)>>}

\* markdownConverter.makeHtml: the external converter wraps the text
makeHtml(markdown) == <<"<","p",">">> \o markdown \o <<"<","/","p",">">>

(***************************************************************************)
(* getBlogPosts, buildBlogPage and main (build.cjs 215-367)                *)
(***************************************************************************)
\* config.routes[which], joined to the templates directory: a TypeError
\* when config or config.routes is null/undefined or the name is no string
RoutePath(cfg, which) ==
  IF cfg.t \in {"null", "undefined"} THEN Thrown
  ELSE LET routes == GetProperty(cfg, S_routes) IN
       IF routes.t \in {"null", "undefined"} THEN Thrown
       ELSE LET name == GetProperty(routes, which) IN
            IF name.t = "string" THEN Returned(name) ELSE Thrown

\* config.title
ConfigTitle(cfg) == GetProperty(cfg, S_title)

\* postDirs.filter(dirent => dirent.isDirectory())
RECURSIVE Directories(_)
Directories(listing) ==
  IF listing = <<>> THEN <<>>
  ELSE (IF Head(listing).isDirectory THEN <<Head(listing).name>> ELSE <<>>)
       \o Directories(Tail(listing))

\* posts.filter(post => post !== null)
RECURSIVE LoadedPosts(_, _)
LoadedPosts(dirs, metas) ==
  IF dirs = <<>> THEN <<>>
  ELSE (IF Head(metas).st = "ok"
        THEN <<[dir |-> Head(dirs), meta |-> Head(metas).meta]>> ELSE <<>>)
       \o LoadedPosts(Tail(dirs), Tail(metas))

\* the pageData of buildBlogPage
PageData(post, blogHtml, cfg) ==
  Obj((S_page :> Obj((S_content :> Str(blogHtml)) @@
                     (S_meta :> post.meta) @@
                     (S_url :> Str(post.dir)))) @@
      (S_title :> ConfigTitle(cfg)))

OutputFileName(dir) == dir \o S_dotHtml

\* the record buildBlogPage returns: a TypeError when post.meta is null
BuiltPost(post, blogHtml) ==
  IF post.meta.t \in {"null", "undefined"} THEN Thrown
  ELSE LET spread == IF post.meta.t = "object" THEN post.meta.v ELSE <<>>
           own == (S_url :> Str(<<"/">> \o OutputFileName(post.dir))) @@
                  (S_content :> Str(blogHtml)) @@
                  (S_title :> GetProperty(post.meta, S_title)) @@
                  (S_meta :> post.meta)
       IN Returned(Obj(own @@ spread))

\* the catch block of buildBlogPage: log, return null
PageError == [st |-> "done", blogHtml |-> <<>>, html |-> <<>>, res |-> Null]

\* await Promise.all(...): settled when every page build has returned
AllSettled(ts) == \A i \in DOMAIN ts : ts[i].st = "done"

\* the values collected as the builds end, in completion order
ValuesAsCompleted(ts, order) == [k \in DOMAIN order |-> ts[order[k]].res]

\* the values Promise.all resolves to: by position, not by completion
PromiseAllValues(ts, order) == [i \in DOMAIN ts |-> ts[i].res]

\* the results of Promise.all taken unfiltered
Unfiltered(results) == results

\* .filter(p => p)
RECURSIVE FilterBuilt(_)
FilterBuilt(results) ==
  IF results = <<>> THEN <<>>
  ELSE (IF Head(results).t = "null" THEN <<>> ELSE <<Head(results)>>)
       \o FilterBuilt(Tail(results))

\* the data main gives the index template
IndexData(cfg, posts) ==
  Obj((S_title :> ConfigTitle(cfg)) @@
      (S_blogcontent :> Obj((S_posts :> Arr(posts)))))

(***************************************************************************)
(* State                                                                   *)
(***************************************************************************)
VARIABLES
  pathString,     \* engine calls: the path resolvePath is given
  template,       \* engine calls: the template the call is given
  data,           \* engine calls: the data context
  shape,          \* engine calls: the parts the input text was written from
  call,           \* engine calls: "none", or the function that was applied
  ret,            \* engine calls: what the call returned or that it threw
  pc,             \* main: the step it is at
  exitCode,       \* -1 while running, then the status of the process
  public,         \* the output directory: file name -> content
  writeLog,       \* the writes into public, in order: who wrote which file
  config,         \* main: the parsed configuration
  mainTemplate,   \* main: the template of the index page
  pagesTemplate,  \* main: the template of the post pages
  postDirs,       \* getBlogPosts: the directories, in readdir order
  metaReads,      \* getBlogPosts: per directory, the meta.json read
  blogPostsMeta,  \* main: what getBlogPosts returned
  tasks,          \* per post of blogPostsMeta, its buildBlogPage call
  finished,       \* the posts of blogPostsMeta in the order their builds ended
  failed,         \* history: the directories that failed, with the cause
  fault,          \* history: the condition that must end the build, or "none"
  builtPosts,     \* main: the post list of the index page
  indexHtml       \* main: the rendered index page

engineVars == <<pathString, template, data, shape, call, ret>>

buildVars ==
  <<pc, exitCode, public, writeLog, config, mainTemplate, pagesTemplate,
    postDirs, metaReads, blogPostsMeta, tasks, finished, failed, fault,
    builtPosts, indexHtml>>

vars == <<engineVars, buildVars>>

EngineIdle ==
  /\ pathString = <<>>
  /\ template = <<>>
  /\ data = Null
  /\ shape = <<>>
  /\ call = "none"
  /\ ret = Thrown

BuildIdle ==
  /\ pc = "start"
  /\ exitCode = -1
  /\ public = <<>>
  /\ writeLog = <<>>
  /\ config = Undefined
  /\ mainTemplate = <<>>
  /\ pagesTemplate = <<>>
  /\ postDirs = <<>>
  /\ metaReads = <<>>
  /\ blogPostsMeta = <<>>
  /\ tasks = <<>>
  /\ finished = <<>>
  /\ failed = {}
  /\ fault = "none"
  /\ builtPosts = <<>>
  /\ indexHtml = <<>>

(***************************************************************************)
(* main (build.cjs 309-367)                                                *)
(***************************************************************************)
\* the catch of main: console.error, process.exit(1)
BuildFailed ==
  /\ pc' = "exited"
  /\ exitCode' = 1

Write(by, dir, file, content) ==
  /\ public' = (file :> content) @@ public
  /\ writeLog' = Append(writeLog, [by |-> by, dir |-> dir, file |-> file])

\* step 1: fs.rm, ensureDirectoryExists, copyStaticFiles (a missing static
\* directory is skipped; a directory that cannot be created ends the build)
Setup ==
  /\ pc = "start"
  /\ \/ /\ fault' = "mkdir"
        /\ BuildFailed
        /\ UNCHANGED <<public, writeLog>>
     \/ \E tree \in StaticTrees :
          /\ public' = tree
          /\ writeLog' = IF tree = <<>> THEN <<>>
                         ELSE <<[by |-> "static", dir |-> <<>>,
                                 file |-> S_a \o S_dotHtml]>>
          /\ pc' = "config"
          /\ UNCHANGED <<exitCode, fault>>
  /\ UNCHANGED <<config, mainTemplate, pagesTemplate, postDirs, metaReads,
                 blogPostsMeta, tasks, finished, failed, builtPosts, indexHtml>>
  /\ UNCHANGED engineVars

\* step 2: read and parse the configuration file; a file that is missing
\* or no JSON ends the build here, one without routes at step 3
LoadConfig ==
  /\ pc = "config"
  /\ \/ /\ \E cause \in {"config-missing", "config-malformed"} : fault' = cause
        /\ BuildFailed
        /\ UNCHANGED config
     \/ /\ \E parsed \in Configs :
             /\ config' = parsed
             /\ fault' = IF parsed = ConfigOk THEN fault ELSE "config-incomplete"
        /\ pc' = "templates"
        /\ UNCHANGED exitCode
  /\ UNCHANGED <<public, writeLog, mainTemplate, pagesTemplate, postDirs,
                 metaReads, blogPostsMeta, tasks, finished, failed, builtPosts,
                 indexHtml>>
  /\ UNCHANGED engineVars

\* step 3, first read: the main template named by config.routes.main
LoadMainTemplate ==
  /\ pc = "templates"
  /\ IF ~RoutePath(config, S_main).ok
     THEN BuildFailed /\ UNCHANGED <<mainTemplate, fault>>
     ELSE \/ /\ fault' = "template-missing"
             /\ BuildFailed
             /\ UNCHANGED mainTemplate
          \/ /\ \E text \in MainTemplates : mainTemplate' = text
             /\ pc' = "templates2"
             /\ UNCHANGED <<exitCode, fault>>
  /\ UNCHANGED <<public, writeLog, config, pagesTemplate, postDirs, metaReads,
                 blogPostsMeta, tasks, finished, failed, builtPosts, indexHtml>>
  /\ UNCHANGED engineVars

\* step 3, second read: the page template named by config.routes.pages
LoadPagesTemplate ==
  /\ pc = "templates2"
  /\ IF ~RoutePath(config, S_pages).ok
     THEN BuildFailed /\ UNCHANGED <<pagesTemplate, fault>>
     ELSE \/ /\ fault' = "template-missing"
             /\ BuildFailed
             /\ UNCHANGED pagesTemplate
          \/ /\ \E text \in PageTemplates : pagesTemplate' = text
             /\ pc' = "readdir"
             /\ UNCHANGED <<exitCode, fault>>
  /\ UNCHANGED <<public, writeLog, config, mainTemplate, postDirs, metaReads,
                 blogPostsMeta, tasks, finished, failed, builtPosts, indexHtml>>
  /\ UNCHANGED engineVars

\* getBlogPosts returning an empty list when readdir fails
ReaddirFailedQuietly == [thrown |-> FALSE, dirs |-> <<>>]

\* what getBlogPosts does when readdir fails: log, throw
ReaddirFailed == [thrown |-> TRUE, dirs |-> <<>>]

\* getBlogPosts has the directories: one meta.json read starts for each
StartMetaReads(dirs) ==
  /\ postDirs' = dirs
  /\ metaReads' = [i \in DOMAIN dirs |-> [st |-> "pending", meta |-> Null]]
  /\ pc' = "metas"
  /\ UNCHANGED exitCode

\* step 4, getBlogPosts: readdir, then one meta.json read per directory
ReadBlogsDir ==
  /\ pc = "readdir"
  /\ \/ /\ fault' = "content-root"
        /\ IF ReaddirFailed.thrown
           THEN BuildFailed /\ UNCHANGED <<postDirs, metaReads>>
           ELSE StartMetaReads(ReaddirFailed.dirs)
     \/ /\ \E listing \in Listings : StartMetaReads(Directories(listing))
        /\ UNCHANGED fault
  /\ UNCHANGED <<public, writeLog, config, mainTemplate, pagesTemplate,
                 blogPostsMeta, tasks, finished, failed, builtPosts, indexHtml>>
  /\ UNCHANGED engineVars

\* getBlogPosts, one directory: meta.json is missing, malformed, or parsed
ReadMeta(i) ==
  /\ pc = "metas"
  /\ i \in DOMAIN metaReads
  /\ metaReads[i].st = "pending"
  /\ \/ \E cause \in {"meta-missing", "meta-malformed"} :
          /\ metaReads' = [metaReads EXCEPT ![i] = [st |-> "null", meta |-> Null]]
          /\ failed' = failed \cup {[dir |-> postDirs[i], cause |-> cause]}
     \/ \E k \in DOMAIN Metas :
          /\ metaReads' = [metaReads EXCEPT ![i] = [st |-> "ok", meta |-> Metas[k]]]
          /\ UNCHANGED failed
  /\ UNCHANGED <<pc, exitCode, public, writeLog, config, mainTemplate,
                 pagesTemplate, postDirs, blogPostsMeta, tasks, finished, fault,
                 builtPosts, indexHtml>>
  /\ UNCHANGED engineVars

\* step 5, first half: getBlogPosts returns, main calls buildBlogPage for
\* every post; each call runs up to its await of readFile(content.md)
StartBuilds ==
  /\ pc = "metas"
  /\ \A i \in DOMAIN metaReads : metaReads[i].st # "pending"
  /\ blogPostsMeta' = LoadedPosts(postDirs, metaReads)
  /\ tasks' = [i \in DOMAIN blogPostsMeta' |->
                 [st |-> "reading", blogHtml |-> <<>>, html |-> <<>>,
                  res |-> Null]]
  /\ pc' = "building"
  /\ UNCHANGED <<exitCode, public, writeLog, config, mainTemplate, pagesTemplate,
                 postDirs, metaReads, finished, failed, fault, builtPosts,
                 indexHtml>>
  /\ UNCHANGED engineVars

\* buildBlogPage threw at post i: its catch returns null
PageFails(i, cause) ==
  /\ tasks' = [tasks EXCEPT ![i] = PageError]
  /\ failed' = failed \cup {[dir |-> blogPostsMeta[i].dir, cause |-> cause]}

\* buildBlogPage after fillTemplate: a throw is caught, else writeFile starts
PageRendered(i, blogHtml, finalHtml) ==
  IF ~finalHtml.ok
  THEN PageFails(i, "render") /\ finished' = Append(finished, i)
  ELSE /\ tasks' = [tasks EXCEPT ![i] =
                      [st |-> "writing", blogHtml |-> blogHtml,
                       html |-> finalHtml.v, res |-> Null]]
       /\ UNCHANGED <<finished, failed>>

\* buildBlogPage, from the read of content.md to the call of writeFile
ReadContent(i) ==
  /\ pc = "building"
  /\ i \in DOMAIN tasks
  /\ tasks[i].st = "reading"
  /\ \/ PageFails(i, "content-missing") /\ finished' = Append(finished, i)
     \/ \E blogContent \in Contents :
          PageRendered(i, makeHtml(blogContent),
                       fillTemplate(pagesTemplate,
                                    PageData(blogPostsMeta[i],
                                             makeHtml(blogContent), config)))
  /\ UNCHANGED <<pc, exitCode, public, writeLog, config, mainTemplate,
                 pagesTemplate, postDirs, metaReads, blogPostsMeta, fault,
                 builtPosts, indexHtml>>
  /\ UNCHANGED engineVars

\* buildBlogPage after writeFile: the record is assembled and returned
PageWritten(i, built) ==
  IF ~built.ok THEN PageFails(i, "assemble")
  ELSE /\ tasks' = [tasks EXCEPT ![i] =
                      [st |-> "done", blogHtml |-> <<>>, html |-> <<>>,
                       res |-> built.v]]
       /\ UNCHANGED failed

\* buildBlogPage, from the end of writeFile to its return
WritePage(i) ==
  /\ pc = "building"
  /\ i \in DOMAIN tasks
  /\ tasks[i].st = "writing"
  /\ \/ PageFails(i, "write") /\ UNCHANGED <<public, writeLog>>
     \/ /\ Write("post", blogPostsMeta[i].dir,
                 OutputFileName(blogPostsMeta[i].dir), tasks[i].html)
        /\ PageWritten(i, BuiltPost(blogPostsMeta[i], tasks[i].blogHtml))
  /\ finished' = Append(finished, i)
  /\ UNCHANGED <<pc, exitCode, config, mainTemplate, pagesTemplate, postDirs,
                 metaReads, blogPostsMeta, fault, builtPosts, indexHtml>>
  /\ UNCHANGED engineVars

\* step 6 after fillTemplate: a throw ends the build, else writeFile starts
IndexRendered(html) ==
  IF ~html.ok
  THEN BuildFailed /\ UNCHANGED indexHtml
  ELSE /\ indexHtml' = html.v
       /\ pc' = "writingIndex"
       /\ UNCHANGED exitCode

\* the index page rendered from the post list
IndexFrom(posts) ==
  /\ builtPosts' = posts
  /\ IndexRendered(fillTemplate(mainTemplate, IndexData(config, posts)))

\* steps 5 (Promise.all resolves, filter) and 6 up to the call of writeFile
BuildIndex ==
  /\ pc = "building"
  /\ AllSettled(tasks)
  /\ IndexFrom(FilterBuilt(PromiseAllValues(tasks, finished)))
  /\ UNCHANGED <<public, writeLog, config, mainTemplate, pagesTemplate, postDirs,
                 metaReads, blogPostsMeta, tasks, finished, failed, fault>>
  /\ UNCHANGED engineVars

\* step 6: index.html is written, main returns, the process ends
WriteIndex ==
  /\ pc = "writingIndex"
  /\ Write("index", <<>>, OutputFileName(S_index), indexHtml)
  /\ pc' = "done"
  /\ exitCode' = 0
  /\ UNCHANGED <<config, mainTemplate, pagesTemplate, postDirs, metaReads,
                 blogPostsMeta, tasks, finished, failed, fault, builtPosts,
                 indexHtml>>
  /\ UNCHANGED engineVars

(***************************************************************************)
(* Calls of the templating engine on inputs written from parts             *)
(***************************************************************************)
CallResolvePath ==
  /\ call = "none"
  /\ call' = "resolvePath"
  /\ ret' = resolvePath(pathString, data)
  /\ UNCHANGED <<pathString, template, data, shape>>
  /\ UNCHANGED buildVars

CallReplacePlaceholders ==
  /\ call = "none"
  /\ call' = "replacePlaceholders"
  /\ ret' = replacePlaceholders(template, data)
  /\ UNCHANGED <<pathString, template, data, shape>>
  /\ UNCHANGED buildVars

CallFillTemplate ==
  /\ call = "none"
  /\ call' = "fillTemplate"
  /\ ret' = fillTemplate(template, data)
  /\ UNCHANGED <<pathString, template, data, shape>>
  /\ UNCHANGED buildVars

SeqsUpTo(S, n) == UNION {[1..m -> S] : m \in 1..n}

\* ---- paths: segments `name` and `name[i]`, joined by dots
MaxSegments == 3

S_c == <<"c">>
S_n == <<"n">>
S_x == <<"x">>

Plain(name) == [name |-> name, index |-> -1]
Indexed(name, i) == [name |-> name, index |-> i]

PathSegments ==
  {Plain(S_a), Plain(S_b), Plain(S_c), Plain(S_x), Plain(S_n),
   Plain(S_length), Plain(<<"1">>), Plain(S_toString),
   Indexed(S_b, 0), Indexed(S_b, 1), Indexed(S_b, 2), Indexed(S_c, 0)}

SegmentText(seg) ==
  IF seg.index < 0 THEN seg.name
  ELSE seg.name \o <<"[">> \o NumText(seg.index) \o <<"]">>

PathText(segs) == Dotted([i \in DOMAIN segs |-> SegmentText(segs[i])])

\* {a: {b: [{c: 1}, {c: 2}], n: null}, c: "hi"}  and
\* {a: {b: {c: 1}}, b: ["p", "q"]}
PathData ==
  {Obj((S_a :> Obj((S_b :> Arr(<<Obj((S_c :> Num(1))), Obj((S_c :> Num(2)))>>)) @@
                   (S_n :> Null))) @@
       (S_c :> Str(<<"h", "i">>))),
   Obj((S_a :> Obj((S_b :> Obj((S_c :> Num(1)))))) @@
       (S_b :> Arr(<<Str(<<"p">>), Str(<<"q">>)>>)))}

InitPaths ==
  /\ \E segs \in SeqsUpTo(PathSegments, MaxSegments), d \in PathData :
       /\ shape = segs
       /\ pathString = PathText(segs)
       /\ template = Placeholder(PathText(segs))
       /\ data = d
  /\ call = "none"
  /\ ret = Thrown
  /\ BuildIdle

NextPaths == CallResolvePath \/ CallReplacePlaceholders

SpecPaths == InitPaths /\ [][NextPaths]_vars

\* ---- templates of literal text and placeholders
MaxParts == 3

S_name == <<"n","a","m","e">>
S_user == <<"u","s","e","r">>
S_nope == <<"n","o","p","e">>
S_list == <<"l","i","s","t">>

TextPart(text) == [kind |-> "text", text |-> text, pad |-> <<>>]
PlaceholderPart(path, pad) == [kind |-> "placeholder", text |-> path, pad |-> pad]

\* a loop block inside a loop body: its own body is `{{ item }},`
LoopPart(path) == [kind |-> "loop", text |-> path, pad |-> <<>>]

InnerBody == Placeholder(S_item) \o <<",">>

PartText(part) ==
  CASE part.kind = "text" -> part.text
    [] part.kind = "placeholder" ->
         S_openBraces \o part.pad \o part.text \o part.pad \o S_closeBraces
    [] part.kind = "loop" -> LoopBlock(part.text, InnerBody)

RECURSIVE PartsText(_)
PartsText(parts) ==
  IF parts = <<>> THEN <<>> ELSE PartText(Head(parts)) \o PartsText(Tail(parts))

TemplateParts ==
  {TextPart(<<"H", "i", " ">>),
   TextPart(<<"}", "\n">>),
   PlaceholderPart(S_name, <<" ">>),
   PlaceholderPart(S_name, <<>>),
   PlaceholderPart(Dotted(<<S_user, S_name>>), <<" ">>),
   PlaceholderPart(S_nope, <<" ">>),
   PlaceholderPart(Dotted(<<S_user, S_nope, S_x>>), <<" ">>),
   PlaceholderPart(PathText(<<Indexed(S_list, 1)>>), <<" ">>),
   PlaceholderPart(S_user, <<" ">>)}

\* {}  and  {name: "Ada", user: {name: "Bo"}, list: [1, 2]}
PlaceholderData ==
  {Obj(<<>>),
   Obj((S_name :> Str(<<"A", "d", "a">>)) @@
       (S_user :> Obj((S_name :> Str(<<"B", "o">>)))) @@
       (S_list :> Arr(<<Num(1), Num(2)>>)))}

InitPlaceholders ==
  /\ \E parts \in SeqsUpTo(TemplateParts, MaxParts), d \in PlaceholderData :
       /\ shape = parts
       /\ template = PartsText(parts)
       /\ data = d
  /\ pathString = <<>>
  /\ call = "none"
  /\ ret = Thrown
  /\ BuildIdle

NextPlaceholders == CallReplacePlaceholders \/ CallFillTemplate

SpecPlaceholders == InitPlaceholders /\ [][NextPlaceholders]_vars

\* ---- the same templates given to fillTemplate of both variants
CallFillTemplate_js ==
  /\ call = "none"
  /\ call' = "fillTemplate_js"
  /\ ret' = fillTemplate_js(template, data)
  /\ UNCHANGED <<pathString, template, data, shape>>
  /\ UNCHANGED buildVars

NextVariants == CallFillTemplate_js \/ CallFillTemplate

SpecVariants == InitPlaceholders /\ [][NextVariants]_vars

\* ---- templates of raw delimiters, complete markers or not
MaxTokens == 4

RawTokens ==
  {S_openBraces, S_closeBraces, <<"}">>, S_openLoop, <<")">>, S_closeLoop,
   S_a, <<"\n">>}

\* {}  and  {a: "v"}
RawData == {Obj(<<>>), Obj((S_a :> Str(<<"v">>)))}

InitRaw ==
  /\ \E tokens \in SeqsUpTo(RawTokens, MaxTokens), d \in RawData :
       /\ shape = tokens
       /\ template = Concat(tokens)
       /\ data = d
  /\ pathString = <<>>
  /\ call = "none"
  /\ ret = Thrown
  /\ BuildIdle

NextRaw == CallFillTemplate

SpecRaw == InitRaw /\ [][NextRaw]_vars

\* ---- templates of one loop block, its body written from parts
MaxBodyParts == 2

S_items == <<"i","t","e","m","s">>
S_more == <<"m","o","r","e">>
S_kids == <<"k","i","d","s">>
S_v == <<"v">>
S_w == <<"w">>

BodyParts ==
  {TextPart(<<"<", "l", "i", ">">>),
   PlaceholderPart(Dotted(<<S_item, S_v>>), <<" ">>),
   PlaceholderPart(S_title, <<" ">>),
   LoopPart(Dotted(<<S_item, S_kids>>))}

LoopPaths == {S_items, S_more, S_nope, S_title}

LoopPrefixes == {<<>>, Placeholder(S_title)}

LoopSuffix == <<".">>

\* {title: "T", items: [{v: "x", kids: [1, 2]}, {v: "y", kids: []}], more: []}
\* {title: "T", items: [{w: "x", kids: [3]}], item: {v: "o"}}
\* {title: "T", items: [{v: "{{ title }}", kids: [1]}]}
LoopContexts ==
  {Obj((S_title :> Str(<<"T">>)) @@
       (S_items :> Arr(<<Obj((S_v :> Str(<<"x">>)) @@ (S_kids :> Arr(<<Num(1), Num(2)>>))),
                         Obj((S_v :> Str(<<"y">>)) @@ (S_kids :> Arr(<<>>)))>>)) @@
       (S_more :> Arr(<<>>))),
   Obj((S_title :> Str(<<"T">>)) @@
       (S_items :> Arr(<<Obj((S_w :> Str(<<"x">>)) @@ (S_kids :> Arr(<<Num(3)>>)))>>)) @@
       (S_item :> Obj((S_v :> Str(<<"o">>))))),
   Obj((S_title :> Str(<<"T">>)) @@
       (S_items :> Arr(<<Obj((S_v :> Str(Placeholder(S_title))) @@
                             (S_kids :> Arr(<<Num(1)>>)))>>)))}

LoopTemplate(sh) ==
  sh.pre \o LoopBlock(sh.path, PartsText(sh.body)) \o LoopSuffix

InitLoops ==
  /\ \E pre \in LoopPrefixes, path \in LoopPaths,
        body \in SeqsUpTo(BodyParts, MaxBodyParts), d \in LoopContexts :
       /\ shape = [pre |-> pre, path |-> path, body |-> body]
       /\ template = LoopTemplate(shape)
       /\ data = d
  /\ pathString = <<>>
  /\ call = "none"
  /\ ret = Thrown
  /\ BuildIdle

NextLoops == CallFillTemplate

SpecLoops == InitLoops /\ [][NextLoops]_vars

(***************************************************************************)
(* Properties of the templating engine                                     *)
(***************************************************************************)
\* What a part of a template is to become: text stays, a placeholder whose
\* path resolves becomes the text of the value, any other placeholder stays
ExpectedPart(part, d) ==
  IF part.kind = "text" THEN part.text
  ELSE IF resolvePath(part.text, d).ok THEN Text(resolvePath(part.text, d).v)
       ELSE PartText(part)

RECURSIVE ExpectedParts(_, _)
ExpectedParts(parts, d) ==
  IF parts = <<>> THEN <<>>
  ELSE ExpectedPart(Head(parts), d) \o ExpectedParts(Tail(parts), d)

Unresolved(part, d) == part.kind = "placeholder" /\ ~resolvePath(part.text, d).ok
Resolved(part, d) == part.kind = "placeholder" /\ resolvePath(part.text, d).ok

\* C1: replacePlaceholders returns (it never throws) the template with every
\* placeholder whose path resolves replaced by the text of the value and
\* every placeholder whose path does not resolve left as it was written,
\* whatever the other placeholders of the template do.
PlaceholdersSubstitutedOrKept ==
  call = "replacePlaceholders" => ret = Returned(ExpectedParts(shape, data))

\* C1, its case: a placeholder that does not resolve, then one that does
BrokenThenResolvedPlaceholder ==
  /\ call = "replacePlaceholders"
  /\ ret.ok
  /\ \E i, j \in DOMAIN shape :
       i < j /\ Unresolved(shape[i], data) /\ Resolved(shape[j], data)

\* The resolver of the design: a plain segment needs a mapping that holds
\* the key, an indexed segment a mapping whose key holds a sequence with
\* that position; `range` tells that an index outside the sequence was met.
RECURSIVE ReferenceResolve(_, _)
ReferenceResolve(segs, cur) ==
  LET failure == [ok |-> FALSE, v |-> Undefined, range |-> FALSE]
      seg == Head(segs)
  IN IF segs = <<>> THEN [ok |-> TRUE, v |-> cur, range |-> FALSE]
     ELSE IF cur.t # "object" THEN failure
     ELSE IF seg.name \notin DOMAIN cur.v THEN failure
     ELSE IF seg.index < 0 THEN ReferenceResolve(Tail(segs), cur.v[seg.name])
     ELSE IF cur.v[seg.name].t # "array" THEN failure
     ELSE IF seg.index >= Len(cur.v[seg.name].v)
          THEN [ok |-> FALSE, v |-> Undefined, range |-> TRUE]
          ELSE ReferenceResolve(Tail(segs), cur.v[seg.name].v[seg.index + 1])

\* C4: on a path whose indexes are inside their sequences, resolvePath
\* returns the value the reference resolver reaches, and throws when the
\* reference resolver fails.
ResolvesLikeReference ==
  (call = "resolvePath" /\ ~ReferenceResolve(shape, data).range) =>
    IF ReferenceResolve(shape, data).ok
    THEN ret = Returned(ReferenceResolve(shape, data).v)
    ELSE ~ret.ok

\* C9: a path that indexes a sequence outside its positions does not
\* resolve, and a placeholder with such a path is left as it was written.
OutOfRangeIndexFails ==
  /\ (call = "resolvePath" /\ ReferenceResolve(shape, data).range) => ~ret.ok
  /\ (call = "replacePlaceholders" /\ ReferenceResolve(shape, data).range) =>
       ret = Returned(template)

\* a `{{`, later a `}}`; a `[[(`, later a `)`, later a `]]`
HasPlaceholderMarker(s) ==
  \E i, j \in 1..Len(s) :
    IsAt(s, i, S_openBraces) /\ j >= i + 2 /\ IsAt(s, j, S_closeBraces)

HasLoopMarker(s) ==
  \E i, k, e \in 1..Len(s) :
    IsAt(s, i, S_openLoop) /\ k >= i + 3 /\ s[k] = ")" /\ e > k /\ IsAt(s, e, S_closeLoop)

\* C10: fillTemplate returns a template that holds no placeholder marker
\* and no loop marker unchanged, whatever the data.
MarkerFreeUnchanged ==
  (call = "fillTemplate" /\ ~HasPlaceholderMarker(template) /\ ~HasLoopMarker(template))
    => ret = Returned(template)

\* C10, its case: a template with delimiters that form no marker
FilledMarkerFreeTemplate ==
  /\ call = "fillTemplate"
  /\ ~HasPlaceholderMarker(template) /\ ~HasLoopMarker(template)
  /\ \E i, j \in 1..Len(template) :
       IsAt(template, i, S_openBraces) /\ IsAt(template, j, S_openLoop)

Nested(sh) == \E i \in DOMAIN sh.body : sh.body[i].kind = "loop"

\* the elements the path of the block resolves to, <<>> with `none` when
\* it does not resolve to a sequence
LoopElements(path, d) ==
  IF resolvePath(path, d).ok /\ IsArray(resolvePath(path, d).v)
  THEN [some |-> TRUE, items |-> resolvePath(path, d).v.v]
  ELSE [some |-> FALSE, items |-> <<>>]

\* the body filled once per element, with the data extended by `item`
RECURSIVE FilledPerElement(_, _, _)
FilledPerElement(body, items, d) ==
  IF items = <<>> THEN <<>>
  ELSE fillTemplate(body, LoopData(d, Head(items))).v
       \o FilledPerElement(body, Tail(items), d)

\* C2: a template with one loop block that is not nested, whose path
\* resolves to a sequence, is filled to the text before the block, the
\* body filled once per element in order with the data extended (or
\* overridden) by `item`, and the text after the block.
LoopExpandsPerElement ==
  (call = "fillTemplate" /\ ~Nested(shape) /\ LoopElements(shape.path, data).some) =>
    ret = Returned(replacePlaceholders(shape.pre, data).v
                   \o FilledPerElement(PartsText(shape.body),
                                       LoopElements(shape.path, data).items, data)
                   \o LoopSuffix)

\* what a part of a loop body is to become for one element
ExpandedPart(part, d) ==
  IF part.kind = "loop"
  THEN FilledPerElement(InnerBody, LoopElements(part.text, d).items, d)
  ELSE ExpectedPart(part, d)

RECURSIVE ExpandedParts(_, _)
ExpandedParts(parts, d) ==
  IF parts = <<>> THEN <<>>
  ELSE ExpandedPart(Head(parts), d) \o ExpandedParts(Tail(parts), d)

RECURSIVE ExpandedPerElement(_, _, _)
ExpandedPerElement(parts, items, d) ==
  IF items = <<>> THEN <<>>
  ELSE ExpandedParts(parts, LoopData(d, Head(items)))
       \o ExpandedPerElement(parts, Tail(items), d)

Occurs(pat, s) == \E i \in 1..Len(s) : IsAt(s, i, pat)

\* every inner block of the body has a sequence to run over, per element
InnerLoopsResolve(sh, d) ==
  \A e \in 1..Len(LoopElements(sh.path, d).items) :
    \A i \in DOMAIN sh.body :
      sh.body[i].kind = "loop" =>
        LoopElements(sh.body[i].text,
                     LoopData(d, LoopElements(sh.path, d).items[e])).some

\* C3: a loop block whose body holds another loop block is filled with the
\* inner block instantiated once per inner element for each outer element,
\* and no loop delimiter of either block is left in the output.
NestedLoopsExpand ==
  (/\ call = "fillTemplate"
   /\ Nested(shape)
   /\ LoopElements(shape.path, data).some
   /\ LoopElements(shape.path, data).items # <<>>
   /\ InnerLoopsResolve(shape, data)) =>
    /\ ret.ok
    /\ ~Occurs(S_openLoop, ret.v)
    /\ ~Occurs(S_closeLoop, ret.v)
    /\ ret.v = replacePlaceholders(shape.pre, data).v
               \o ExpandedPerElement(shape.body,
                                     LoopElements(shape.path, data).items, data)
               \o LoopSuffix

(***************************************************************************)
(* The build: main from its start to the end of the process               *)
(***************************************************************************)
Init == EngineIdle /\ BuildIdle

Next ==
  \/ Setup
  \/ LoadConfig
  \/ LoadMainTemplate
  \/ LoadPagesTemplate
  \/ ReadBlogsDir
  \/ \E i \in 1..Len(postDirs) : ReadMeta(i)
  \/ StartBuilds
  \/ \E i \in 1..Len(blogPostsMeta) : ReadContent(i)
  \/ \E i \in 1..Len(blogPostsMeta) : WritePage(i)
  \/ BuildIndex
  \/ WriteIndex

Spec == Init /\ [][Next]_vars

(***************************************************************************)
(* Properties of the build                                                 *)
(***************************************************************************)
\* the url buildBlogPage gives the post of a directory
PageUrl(dir) == <<"/">> \o OutputFileName(dir)

\* the url of an entry of the post list
EntryUrl(entry) ==
  IF entry.t = "object" /\ S_url \in DOMAIN entry.v /\ entry.v[S_url].t = "string"
  THEN entry.v[S_url].v ELSE <<>>

WrittenBy(by, dir) ==
  \E k \in DOMAIN writeLog : writeLog[k].by = by /\ writeLog[k].dir = dir

Listed(dir) == \E k \in DOMAIN builtPosts : EntryUrl(builtPosts[k]) = PageUrl(dir)

HasFailed(dir) == \E f \in failed : f.dir = dir

\* the loop blocks of a template from position `from` on, one after the other
RECURSIVE LoopBlocks(_, _)
LoopBlocks(s, from) ==
  IF LoopStarts(s, from) = {} THEN {}
  ELSE {Min(LoopStarts(s, from))}
       \cup LoopBlocks(s, LoopMatch(s, Min(LoopStarts(s, from))).next)

\* a loop block of the template has a path that gives no sequence
LoopPathFails(tpl, d) ==
  \E i \in LoopBlocks(tpl, 1) : ~LoopElements(LoopMatch(tpl, i).path, d).some

\* the data buildBlogPage renders the page of post i with
PageDataOf(i, blogContent) ==
  PageData(blogPostsMeta[i], makeHtml(blogContent), config)

\* C5: when a loop block of the page template has a path that does not
\* resolve, or resolves to something that is no sequence, fillTemplate
\* throws; the build of that post ends with null, no page is written for
\* it and it is not in the post list of the index.
LoopPathFailureDropsPost ==
  \A i \in DOMAIN tasks : \A blogContent \in Contents :
    LoopPathFails(pagesTemplate, PageDataOf(i, blogContent)) =>
      /\ ~fillTemplate(pagesTemplate, PageDataOf(i, blogContent)).ok
      /\ tasks[i].st \in {"reading", "done"}
      /\ tasks[i].st = "done" => tasks[i].res = Null
      /\ ~WrittenBy("post", blogPostsMeta[i].dir)
      /\ ~Listed(blogPostsMeta[i].dir)

\* C5, its case: a finished build in which the page of a post threw on its
\* loop block (the tags are a string, or the metadata is null) while
\* another post was built
PostDroppedOnLoopPath ==
  /\ pc = "done"
  /\ builtPosts # <<>>
  /\ \E i \in DOMAIN tasks : \E blogContent \in Contents :
       /\ LoopPathFails(pagesTemplate, PageDataOf(i, blogContent))
       /\ [dir |-> blogPostsMeta[i].dir, cause |-> "render"] \in failed

RECURSIVE EntryUrls(_)
EntryUrls(entries) ==
  IF entries = <<>> THEN <<>>
  ELSE <<EntryUrl(Head(entries))>> \o EntryUrls(Tail(entries))

\* the urls of the directories that did not fail, in directory order
RECURSIVE SoundUrls(_)
SoundUrls(dirs) ==
  IF dirs = <<>> THEN <<>>
  ELSE (IF HasFailed(Head(dirs)) THEN <<>> ELSE <<PageUrl(Head(dirs))>>)
       \o SoundUrls(Tail(dirs))

\* C6: whichever posts fail, the build does not exit with an error unless
\* on a condition that is not a post's, and at its end every post that
\* did not fail has its page written, index.html is written, the post
\* list holds exactly the posts that did not fail, and the exit status
\* is 0.
PostFailuresIsolated ==
  /\ pc = "exited" => fault # "none"
  /\ pc = "done" =>
       /\ exitCode = 0
       /\ WrittenBy("index", <<>>)
       /\ EntryUrls(builtPosts) = SoundUrls(postDirs)
       /\ \A k \in DOMAIN postDirs :
            ~HasFailed(postDirs[k]) => WrittenBy("post", postDirs[k])

\* C6, its case: a finished build with a post that failed and one that did not
BuiltAroundFailedPost ==
  /\ pc = "done"
  /\ failed # {}
  /\ builtPosts # <<>>

\* the place of the directory of a post list entry in the directory listing
DirectoryPlace(entry) ==
  CHOOSE k \in DOMAIN postDirs : PageUrl(postDirs[k]) = EntryUrl(entry)

\* C7: once the index page is rendered every page build has returned, and
\* the post list is in the order of the directory listing, whatever the
\* order the builds ended in.
IndexAfterAllPostsInOrder ==
  pc \in {"writingIndex", "done"} =>
    /\ \A i \in DOMAIN tasks : tasks[i].st = "done"
    /\ Len(finished) = Len(tasks)
    /\ \A k \in DOMAIN builtPosts :
         \E j \in DOMAIN postDirs : PageUrl(postDirs[j]) = EntryUrl(builtPosts[k])
    /\ \A k1, k2 \in DOMAIN builtPosts :
         k1 < k2 => DirectoryPlace(builtPosts[k1]) < DirectoryPlace(builtPosts[k2])

\* C7, its case: two posts built, the second of the listing ended first
SecondPostEndedFirst ==
  /\ pc = "done"
  /\ Len(builtPosts) = 2
  /\ finished = <<2, 1>>

\* the conditions that are fatal to the build
FatalFaults ==
  {"config-missing", "config-malformed", "template-missing", "content-root"}

\* C8: when the configuration file is missing or malformed, a template
\* file is missing, or the content root cannot be read, main exits with
\* status 1, and no post page and no index.html is written in that run.
FatalErrorsAbort ==
  fault \in FatalFaults =>
    /\ pc = "exited"
    /\ exitCode = 1
    /\ \A k \in DOMAIN writeLog : writeLog[k].by \notin {"post", "index"}

\* C8, its case: the content root could not be read, after the static
\* files were copied
AbortedOnContentRoot ==
  /\ fault = "content-root"
  /\ pc = "exited"
  /\ writeLog # <<>>

\* C11: at the end of a build that did not end with a fatal error, a post
\* has left its page <slug>.html in the output directory exactly when it
\* is in the post list of the index page; a post whose build returned
\* null has left no page.
OutputFilesMatchIndex ==
  pc = "done" =>
    /\ \A k \in DOMAIN postDirs :
         WrittenBy("post", postDirs[k]) <=> Listed(postDirs[k])
    /\ \A i \in DOMAIN tasks :
         tasks[i].res = Null => ~WrittenBy("post", blogPostsMeta[i].dir)

\* the text processLoops puts in the place of the loop block of the template
ExpandedBlock(sh, d) == processLoops(LoopBlock(sh.path, PartsText(sh.body)), d)

\* C12: the placeholder substitution fillTemplate runs after the loop
\* expansion leaves the text that came out of the loop block as it is: the
\* result is the substituted text before the block, the expanded block
\* unchanged, and the text after the block.
ExpandedTextNotReevaluated ==
  (call = "fillTemplate" /\ ExpandedBlock(shape, data).ok) =>
    ret = Returned(replacePlaceholders(shape.pre, data).v
                   \o ExpandedBlock(shape, data).v
                   \o LoopSuffix)

\* the page buildBlogPage rendered for post i
RenderedPage(i) ==
  fillTemplate(pagesTemplate, PageDataOf(i, CHOOSE blogContent \in Contents : TRUE)).v

\* the file holds what src/static holds under that name
HoldsStaticSource(file) ==
  \E tree \in StaticTrees :
    file \in DOMAIN tree /\ file \in DOMAIN public /\ public[file] = tree[file]

\* C13: at the end of a successful build the page <slug>.html of every
\* post of the index list holds the page rendered for that post, and
\* every static file that was copied holds its source content: no write
\* of the build has replaced what an earlier write put there.
NoOutputOverwritten ==
  pc = "done" =>
    /\ \A i \in DOMAIN tasks :
         Listed(blogPostsMeta[i].dir) =>
           /\ OutputFileName(blogPostsMeta[i].dir) \in DOMAIN public
           /\ public[OutputFileName(blogPostsMeta[i].dir)] = RenderedPage(i)
    /\ \A k \in DOMAIN writeLog :
         writeLog[k].by = "static" => HoldsStaticSource(writeLog[k].file)

\* C14: on a template without loop blocks, fillTemplate of build.js has
\* the outcome of fillTemplate of build.cjs: the same text returned, and a
\* throw only where the other throws.
VariantsAgreeWithoutLoops ==
  (call = "fillTemplate_js" /\ ~HasLoopMarker(template)) =>
    ret = fillTemplate(template, data)

====
